---- MODULE Spec2Model ----
(***************************************************************************)
(* A model of pymocap's MocapTrajectory (src/pymocap/mocap.py).            *)
(*                                                                         *)
(* Numbers.  Time is in half seconds.  Lengths are whole multiples of the   *)
(* constructor's std_dev_threshold (0.0008 m), so that threshold is 1.     *)
(* A quaternion component x is held as the integer 2*x: a unit quaternion  *)
(* is a 4-tuple of squared norm 4, and the unit quaternions of the model   *)
(* are the 24 Hurwitz units (+-1, +-i, +-j, +-k, (+-1+-i+-j+-k)/2), which  *)
(* are closed under the rotations the model applies, so every conversion   *)
(* quaternion <-> rotation matrix is exact integer arithmetic.             *)
(*                                                                         *)
(* Splines.  csaps(x, y, smooth ~ 1) is held as the data y it was fitted   *)
(* to; evaluated with derivative order 0 at a sample time x[i] it returns  *)
(* y[i] (the smoothing error is taken as 0); a derivative is kept as the   *)
(* unevaluated term "derivative nu of the spline through y at t".          *)
(***************************************************************************)
EXTENDS Integers, Sequences, FiniteSets, TLC

VARIABLES
    args,           \* the arguments of the constructing call
    status,         \* "new": not yet called, "ok": object returned, "raised": exception
    stamps,         \* self.stamps
    raw_position,   \* self.raw_position
    raw_quaternion, \* self.raw_quaternion
    frame_id,       \* self.frame_id
    pos_spline,     \* self._pos_spline (the data it was fitted to)
    quat_spline,    \* self._quat_spline (the data it was fitted to)
    static_mask,    \* self.static_mask
    ret,            \* the last call: its name, arguments and result
    hist            \* the re-basing calls made so far, with the outputs before each

vars == <<args, status, stamps, raw_position, raw_quaternion, frame_id,
          pos_spline, quat_spline, static_mask, ret, hist>>

self_vars == <<stamps, raw_position, raw_quaternion, frame_id,
               pos_spline, quat_spline, static_mask>>

\* An attribute that was never assigned.
None == <<>>

-----------------------------------------------------------------------------
(* Bounds of the model *)

\* samples per trajectory where orientation is what varies, and re-basing calls
MaxN == 3
MaxRebase == 2
\* length of the query sequences handed to to_pynav
MaxQuery == 2
\* samples per trajectory and last time stamp where position and time vary
MaxSamples == 5
MaxStamp == 4
\* the window sizes and thresholds get_static_mask is called with
MaxWindow == 3
MaxThreshold == 1
\* lengths and time stamps of the constructor's arguments, well-formed or not
MaxLen == 3
MaxTime == 2

-----------------------------------------------------------------------------
(* numpy arithmetic on rows and matrices *)

Range(s) == {s[i] : i \in DOMAIN s}

RECURSIVE SumTo(_, _)
SumTo(f, n) == IF n = 0 THEN 0 ELSE f[n] + SumTo(f, n - 1)

Dot(a, b) == SumTo([k \in 1..Len(a) |-> a[k] * b[k]], Len(a))

Norm2(a) == Dot(a, a)

Neg(a) == [k \in 1..Len(a) |-> -a[k]]

Sub(a, b) == [k \in 1..Len(a) |-> a[k] - b[k]]

\* the square root of a perfect square
ISqrt(n) == CHOOSE r \in 0..n : r * r = n

Transpose(A) == << <<A[1][1], A[2][1], A[3][1]>>,
                   <<A[1][2], A[2][2], A[3][2]>>,
                   <<A[1][3], A[2][3], A[3][3]>> >>

MatRow(a, B) == <<a[1] * B[1][1] + a[2] * B[2][1] + a[3] * B[3][1],
                  a[1] * B[1][2] + a[2] * B[2][2] + a[3] * B[3][2],
                  a[1] * B[1][3] + a[2] * B[2][3] + a[3] * B[3][3]>>

MatMul(A, B) == <<MatRow(A[1], B), MatRow(A[2], B), MatRow(A[3], B)>>

MatVec(A, v) == <<Dot(A[1], v), Dot(A[2], v), Dot(A[3], v)>>

StrictlyIncreasing(x) == \A i \in 1..(Len(x) - 1) : x[i] < x[i + 1]

-----------------------------------------------------------------------------
(* pylie: SO3.from_quat, SO3.to_quat, SO3.wedge, SE3 / SE23.from_components *)

wedge(e) == << <<0, -e[3], e[2]>>, <<e[3], 0, -e[1]>>, <<-e[2], e[1], 0>> >>

\* C = (1 - 2 eps.eps) 1 + 2 eps eps^T + 2 eta eps^x, for q = (eta, eps), order wxyz
from_quat(q) ==
    LET eta == q[1]
        eps == <<q[2], q[3], q[4]>>
        W == wedge(eps)
        d == eta * eta - Dot(eps, eps)
        E(r, c) == ((IF r = c THEN d ELSE 0)
                      + 2 * eps[r] * eps[c] + 2 * eta * W[r][c]) \div 4
    IN << <<E(1, 1), E(1, 2), E(1, 3)>>,
          <<E(2, 1), E(2, 2), E(2, 3)>>,
          <<E(3, 1), E(3, 2), E(3, 3)>> >>

\* The quaternion of C with eta = sqrt(trace + 1) / 2 >= 0.  For a rotation by
\* pi, eta = 0 and both signs of eps are quaternions of C: sgn is the one taken.
to_quat(C, sgn) ==
    LET eta == ISqrt(C[1][1] + C[2][2] + C[3][3] + 1)
    IN IF eta # 0
       THEN <<eta, (C[3][2] - C[2][3]) \div eta,
                   (C[1][3] - C[3][1]) \div eta,
                   (C[2][1] - C[1][2]) \div eta>>
       ELSE <<0, sgn * ISqrt(2 * (1 + C[1][1])),
                 sgn * ISqrt(2 * (1 + C[2][2])),
                 sgn * ISqrt(2 * (1 + C[3][3]))>>

SE3_from_components(C, r) == [C |-> C, r |-> r]

SE23_from_components(C, v, r) == [C |-> C, v |-> v, r |-> r]

-----------------------------------------------------------------------------
(* csaps *)

\* csaps(x, y) raises ValueError for fewer than 2 sites, for sites that are not
\* strictly increasing, and for data whose length along the site axis differs.
csaps_raises(x, y) ==
    \/ Len(x) < 2
    \/ Len(y) # Len(x)
    \/ ~StrictlyIncreasing(x)

\* spline(t, nu) at a sample time t of the sites x
spline_eval(x, y, t, nu) ==
    IF nu = 0
    THEN y[CHOOSE i \in 1..Len(x) : x[i] = t]
    ELSE [derivative |-> nu, of |-> y, at |-> t]

-----------------------------------------------------------------------------
(* _fit_position_spline, _fit_quaternion_spline *)

\* quat /= np.linalg.norm(quat, axis=1)[:, None]
normalize_row(q) ==
    LET norm == ISqrt(Norm2(q))
    IN <<(2 * q[1]) \div norm, (2 * q[2]) \div norm,
         (2 * q[3]) \div norm, (2 * q[4]) \div norm>>

normalize_rows(quat) == [i \in 1..Len(quat) |-> normalize_row(quat[i])]

\* one pass of the loop body: row idx + 1 against the row idx as it now is
resolve_row(quat, idx) ==
    LET q == quat[idx + 2]
        q_old == quat[idx + 1]
    IN IF Norm2(Sub(Neg(q), q_old)) < Norm2(Sub(q, q_old))
       THEN [quat EXCEPT ![idx + 2] = Neg(q)]
       ELSE quat

\* a loop that holds every row against the previous row as it was given
resolve_against_raw(quat, idx) ==
    [i \in 1..Len(quat) |->
        IF i > 1 /\ Norm2(Sub(Neg(quat[i]), quat[i - 1])) < Norm2(Sub(quat[i], quat[i - 1]))
        THEN Neg(quat[i])
        ELSE quat[i]]

\* for idx, q in enumerate(quat[1:]): ...
RECURSIVE resolve_ambiguities(_, _)
resolve_ambiguities(quat, idx) ==
    IF idx >= Len(quat) - 1
    THEN quat
    ELSE resolve_ambiguities(resolve_row(quat, idx), idx + 1)

Min(a, b) == IF a < b THEN a ELSE b

\* a fit that cuts the time stamps and the rows to their common length
fit_quaternion_spline_truncating(x, quat) ==
    LET processed == resolve_ambiguities(normalize_rows(quat), 0)
        n == Min(Len(x), Len(processed))
    IN [quat |-> processed,
        raises |-> csaps_raises(SubSeq(x, 1, n), SubSeq(processed, 1, n))]

\* The array as the method leaves it (it is changed in place), and whether
\* the csaps call at its end raises.
fit_quaternion_spline(x, quat) ==
    LET processed == resolve_ambiguities(normalize_rows(quat), 0)
    IN [quat |-> processed, raises |-> csaps_raises(x, processed)]

fit_position_spline(x, pos) ==
    [pos |-> pos, raises |-> csaps_raises(x, pos)]

-----------------------------------------------------------------------------
(* get_static_mask, is_static *)

\* Python's round(num / den) for den > 0: to the nearest integer, a tie to the even one
round_half_even(num, den) ==
    LET q == num \div den
        r == num % den
    IN IF 2 * r < den THEN q
       ELSE IF 2 * r > den THEN q + 1
       ELSE IF q % 2 = 0 THEN q ELSE q + 1

\* window_half_width = round(window_size / 2 * freq),
\* freq = 1 / ((stamps[-1] - stamps[0]) / stamps.size)
window_half_width(x, window_size) ==
    round_half_even(window_size * Len(x), 2 * (x[Len(x)] - x[1]))

\* a window test that takes a trace equal to the threshold as static too
window_is_static_or_equal(pos, lo, hi, cov_threshold) ==
    LET n == hi - lo
        sq == SumTo([k \in 1..n |-> Norm2(pos[lo + k])], n)
        sm == [c \in 1..3 |-> SumTo([k \in 1..n |-> pos[lo + k][c]], n)]
    IN /\ n >= 2
       /\ n * sq - Norm2(sm) <= cov_threshold * n * (n - 1)

\* np.trace(np.cov(pos.T)) < cov_threshold for the rows pos[lo:hi] (0-based, hi
\* excluded).  With n rows the trace is (sum |x|^2 - |sum x|^2 / n) / (n - 1); no
\* row gives nan, which is below nothing.
window_is_static(pos, lo, hi, cov_threshold) ==
    LET n == hi - lo
        sq == SumTo([k \in 1..n |-> Norm2(pos[lo + k])], n)
        sm == [c \in 1..3 |-> SumTo([k \in 1..n |-> pos[lo + k][c]], n)]
    IN /\ n >= 2
       /\ n * sq - Norm2(sm) < cov_threshold * n * (n - 1)

\* a loop body that never extends to the left edge
static_step_no_left_extension(is_static, i, h, pos, cov_threshold) ==
    LET N == Len(is_static) IN
    IF window_is_static(pos, i - h, i + h, cov_threshold)
    THEN IF i # h /\ i = N - h - 1
         THEN [k \in 1..N |-> IF k >= i + 1 THEN TRUE ELSE is_static[k]]
         ELSE [is_static EXCEPT ![i + 1] = TRUE]
    ELSE is_static

\* a loop body that extends to the left edge from every static window
static_step_left_extension_anywhere(is_static, i, h, pos, cov_threshold) ==
    LET N == Len(is_static) IN
    IF window_is_static(pos, i - h, i + h, cov_threshold)
    THEN IF i = N - h - 1 /\ i # h
         THEN [k \in 1..N |-> IF k <= h \/ k >= i + 1 THEN TRUE ELSE is_static[k]]
         ELSE [k \in 1..N |-> IF k <= h \/ k = i + 1 THEN TRUE ELSE is_static[k]]
    ELSE is_static

\* the body of the loop for one i
static_step(is_static, i, h, pos, cov_threshold) ==
    LET N == Len(is_static) IN
    IF window_is_static(pos, i - h, i + h, cov_threshold)
    THEN IF i = h
         THEN [k \in 1..N |-> IF k <= h \/ k = i + 1 THEN TRUE ELSE is_static[k]]
         ELSE IF i = N - h - 1
         THEN [k \in 1..N |-> IF k >= i + 1 THEN TRUE ELSE is_static[k]]
         ELSE [is_static EXCEPT ![i + 1] = TRUE]
    ELSE is_static

\* for i in range(window_half_width, self.stamps.size - window_half_width): ...
RECURSIVE static_loop(_, _, _, _, _)
static_loop(is_static, i, h, pos, cov_threshold) ==
    IF i >= Len(is_static) - h
    THEN is_static
    ELSE static_loop(static_step(is_static, i, h, pos, cov_threshold),
                     i + 1, h, pos, cov_threshold)

get_static_mask(x, pos, window_size, std_dev_threshold) ==
    LET h == window_half_width(x, window_size)
    IN static_loop([k \in 1..Len(x) |-> FALSE], h, h, pos,
                   std_dev_threshold * std_dev_threshold)

\* the constructor's get_static_mask(1, 0.0008): 1 s is 2 half seconds, and
\* 0.0008 m is the unit of length
DefaultWindowSize == 2
DefaultStdDevThreshold == 1

\* a lookup of the next sample instead of the nearest one
next_time_idx(x, t) ==
    LET below == Cardinality({i \in 1..Len(x) : x[i] < t})
    IN IF below > Len(x) - 1 THEN Len(x) - 1 ELSE below

\* interp1d(stamps, indexes, "nearest", bounds_error=False,
\* fill_value="extrapolate"): the number of midpoints (x[i] + x[i+1]) / 2 strictly
\* below t (searchsorted, side "left"), clipped to the indexes; 0-based
nearest_time_idx(x, t) ==
    LET below == Cardinality({i \in 1..(Len(x) - 1) : x[i] + x[i + 1] < 2 * t})
    IN IF below > Len(x) - 1 THEN Len(x) - 1 ELSE below

is_static(x, mask, t) == mask[nearest_time_idx(x, t) + 1]

-----------------------------------------------------------------------------
(* queries of the splines, at sample times *)

position(x, pos, ts) == [i \in 1..Len(ts) |-> spline_eval(x, pos, ts[i], 0)]

velocity(x, pos, ts) == [i \in 1..Len(ts) |-> spline_eval(x, pos, ts[i], 1)]

acceleration(x, pos, ts) == [i \in 1..Len(ts) |-> spline_eval(x, pos, ts[i], 2)]

\* q = self._quat_spline(stamps, 0).T; return q / np.linalg.norm(q, axis=1)[:, None]
quaternion(x, quat, ts) ==
    normalize_rows([i \in 1..Len(ts) |-> spline_eval(x, quat, ts[i], 0)])

rot_matrix(x, quat, ts) ==
    LET q == quaternion(x, quat, ts)
    IN [i \in 1..Len(ts) |-> from_quat(q[i])]

pose_matrix(x, pos, quat, ts) ==
    LET r == position(x, pos, ts)
        C == rot_matrix(x, quat, ts)
    IN [i \in 1..Len(r) |-> SE3_from_components(C[i], r[i])]

extended_pose_matrix(x, pos, quat, ts) ==
    LET r == position(x, pos, ts)
        C == rot_matrix(x, quat, ts)
        v == velocity(x, pos, ts)
    IN [i \in 1..Len(r) |-> SE23_from_components(C[i], v[i], r[i])]

\* a conversion that stamps state i with the i-th sample time of the trajectory
to_pynav_sample_stamps(x, pos, quat, fid, ts, extended_pose) ==
    LET T == IF extended_pose THEN extended_pose_matrix(x, pos, quat, ts)
             ELSE pose_matrix(x, pos, quat, ts)
    IN [i \in 1..Len(ts) |->
          [type |-> IF extended_pose THEN "SE23State" ELSE "SE3State",
           value |-> T[i], stamp |-> x[Min(i, Len(x))], state_id |-> fid]]

\* SE3State(value, stamp, state_id), SE23State(value, stamp, state_id)
to_pynav(x, pos, quat, fid, ts, extended_pose) ==
    IF extended_pose
    THEN LET T == extended_pose_matrix(x, pos, quat, ts)
         IN [i \in 1..Len(ts) |->
               [type |-> "SE23State", value |-> T[i], stamp |-> ts[i], state_id |-> fid]]
    ELSE LET T == pose_matrix(x, pos, quat, ts)
         IN [i \in 1..Len(ts) |->
               [type |-> "SE3State", value |-> T[i], stamp |-> ts[i], state_id |-> fid]]

\* the new orientation data of rotate_body_frame: C_wb = C_wm @ C_bm.T
body_rotated(x, quat, C_bm, sgn) ==
    LET C_wm == rot_matrix(x, quat, x)
    IN [i \in 1..Len(x) |-> to_quat(MatMul(C_wm[i], Transpose(C_bm)), sgn[i])]

\* the new orientation data of rotate_world_frame: C_nm = C_wn.T @ C_wm
world_rotated_quat(x, quat, C_wn, sgn) ==
    LET C_wm == rot_matrix(x, quat, x)
    IN [i \in 1..Len(x) |-> to_quat(MatMul(Transpose(C_wn), C_wm[i]), sgn[i])]

\* the stored raw positions rotated, in place of the spline's positions
world_rotated_raw_pos(x, pos, C_wn) ==
    [i \in 1..Len(x) |-> MatVec(Transpose(C_wn), raw_position[i])]

\* the new position data of rotate_world_frame: r_zw_n = (C_wn.T @ r_zw_w.T).T
world_rotated_pos(x, pos, C_wn) ==
    LET r_zw_w == position(x, pos, x)
    IN [i \in 1..Len(x) |-> MatVec(Transpose(C_wn), r_zw_w[i])]

-----------------------------------------------------------------------------
(* The inputs *)

SeqsUpTo(S, n) == UNION {[1..k -> S] : k \in 0..n}

\* raw quaternion rows: of norm 1, 2 and 1/2, of either sign, a third of a turn
\* and a half turn apart
QuatPalette == {<<-4, 0, 0, 0>>, <<1, 1, 1, 1>>, <<0, -1, 0, 0>>}

\* positions, in units of the threshold
PosPalette == {<<0, 0, 0>>, <<1, 0, 0>>, <<1, 1, 0>>}

\* rotation matrices handed to the re-basing calls: a third of a turn about
\* (1, 1, 1), its inverse, and a half turn about x
RotPalette == {from_quat(<<1, 1, 1, 1>>), Transpose(from_quat(<<1, 1, 1, 1>>)),
               from_quat(<<0, 2, 0, 0>>)}

Signs == {1, -1}

\* the signs to_quat may take, row by row, for the matrices Cs
SignChoices(Cs) ==
    {sgn \in [1..Len(Cs) -> Signs] :
        \A i \in 1..Len(Cs) :
            Cs[i][1][1] + Cs[i][2][2] + Cs[i][3][3] # -1 => sgn[i] = 1}

\* evenly sampled trajectories: a walk along x, any orientations
OrientationArgs ==
    UNION {[stamps : {[i \in 1..n |-> i - 1]},
            position_data : {[i \in 1..n |-> <<i, 0, 0>>]},
            quaternion_data : [1..n -> QuatPalette],
            frame_id : {"ifo001"}] : n \in 2..MaxN}

\* trajectories converted to states: few orientations
QueryArgs ==
    UNION {[stamps : {[i \in 1..n |-> i - 1]},
            position_data : {[i \in 1..n |-> <<i, 0, 0>>]},
            quaternion_data : [1..n -> {<<2, 0, 0, 0>>, <<-1, -1, -1, -1>>}],
            frame_id : {"ifo001", "ifo003"}] : n \in 2..MaxN}

\* unevenly sampled trajectories from time 0 on, any positions, one orientation
StaticArgs ==
    UNION {[stamps : {x \in [1..n -> 0..MaxStamp] : x[1] = 0 /\ StrictlyIncreasing(x)},
            position_data : [1..n -> PosPalette],
            quaternion_data : {[i \in 1..n |-> <<2, 0, 0, 0>>]},
            frame_id : {"ifo001"}] : n \in 2..MaxSamples}

\* arguments of any lengths and any time stamps
AnyArgs ==
    [stamps : SeqsUpTo(0..MaxTime, MaxLen),
     position_data : SeqsUpTo({<<0, 0, 0>>}, MaxLen),
     quaternion_data : SeqsUpTo({<<2, 0, 0, 0>>, <<-4, 0, 0, 0>>}, MaxLen),
     frame_id : {"ifo001"}]

-----------------------------------------------------------------------------
(* The calls *)

\* MocapTrajectory(stamps, position_data, quaternion_data, frame_id), called by op
MocapTrajectory(a, op) ==
    LET pfit == fit_position_spline(a.stamps, a.position_data)
        qfit == fit_quaternion_spline(a.stamps, a.quaternion_data)
    IN /\ stamps' = a.stamps
       /\ raw_position' = a.position_data
       /\ frame_id' = a.frame_id
       /\ IF pfit.raises
          THEN /\ raw_quaternion' = a.quaternion_data
               /\ pos_spline' = None
               /\ quat_spline' = None
               /\ static_mask' = None
               /\ status' = "raised"
               /\ ret' = [op |-> op, raised |-> "ValueError (csaps)"]
          ELSE IF qfit.raises
          THEN /\ raw_quaternion' = qfit.quat
               /\ pos_spline' = pfit.pos
               /\ quat_spline' = None
               /\ static_mask' = None
               /\ status' = "raised"
               /\ ret' = [op |-> op, raised |-> "ValueError (csaps)"]
          ELSE /\ raw_quaternion' = qfit.quat
               /\ pos_spline' = pfit.pos
               /\ quat_spline' = qfit.quat
               /\ static_mask' = get_static_mask(a.stamps, a.position_data,
                                     DefaultWindowSize, DefaultStdDevThreshold)
               /\ status' = "ok"
               /\ ret' = [op |-> op, raised |-> "no"]

Construct ==
    /\ status = "new"
    /\ MocapTrajectory(args, "__init__")
    /\ UNCHANGED <<args, hist>>

\* what a re-basing call is remembered by
Before(op, C) ==
    [op |-> op, C |-> C,
     quaternion |-> quaternion(stamps, quat_spline, stamps),
     rot_matrix |-> rot_matrix(stamps, quat_spline, stamps),
     position |-> position(stamps, pos_spline, stamps)]

\* a body-frame re-basing that re-fits the position spline as well
RotateBodyFrameAndPosition(C_bm, sgn) ==
    /\ status = "ok"
    /\ Len(hist) < MaxRebase
    /\ pos_spline' =
          fit_position_spline(stamps,
              world_rotated_pos(stamps, pos_spline, C_bm)).pos
    /\ quat_spline' =
          fit_quaternion_spline(stamps,
              body_rotated(stamps, quat_spline, C_bm, sgn)).quat
    /\ hist' = Append(hist, Before("rotate_body_frame", C_bm))
    /\ ret' = [op |-> "rotate_body_frame", raised |-> "no"]
    /\ UNCHANGED <<args, status, stamps, raw_position, raw_quaternion, frame_id,
                   static_mask>>

RotateBodyFrame(C_bm, sgn) ==
    /\ status = "ok"
    /\ Len(hist) < MaxRebase
    /\ quat_spline' =
          fit_quaternion_spline(stamps,
              body_rotated(stamps, quat_spline, C_bm, sgn)).quat
    /\ hist' = Append(hist, Before("rotate_body_frame", C_bm))
    /\ ret' = [op |-> "rotate_body_frame", raised |-> "no"]
    /\ UNCHANGED <<args, status, stamps, raw_position, raw_quaternion, frame_id,
                   pos_spline, static_mask>>

RotateWorldFrame(C_wn, sgn) ==
    /\ status = "ok"
    /\ Len(hist) < MaxRebase
    /\ pos_spline' =
          fit_position_spline(stamps,
              world_rotated_pos(stamps, pos_spline, C_wn)).pos
    /\ quat_spline' =
          fit_quaternion_spline(stamps,
              world_rotated_quat(stamps, quat_spline, C_wn, sgn)).quat
    /\ hist' = Append(hist, Before("rotate_world_frame", C_wn))
    /\ ret' = [op |-> "rotate_world_frame", raised |-> "no"]
    /\ UNCHANGED <<args, status, stamps, raw_position, raw_quaternion, frame_id,
                   static_mask>>

ToPynav(ts, extended_pose) ==
    /\ status = "ok"
    /\ ret' = [op |-> "to_pynav", stamps |-> ts, extended_pose |-> extended_pose,
               raised |-> "no",
               value |-> to_pynav(stamps, pos_spline, quat_spline, frame_id,
                                  ts, extended_pose)]
    /\ UNCHANGED <<args, status, self_vars, hist>>

IsStatic(t) ==
    /\ status = "ok"
    /\ ret' = [op |-> "is_static", stamps |-> t, raised |-> "no",
               value |-> is_static(stamps, static_mask, t)]
    /\ UNCHANGED <<args, status, self_vars, hist>>

GetStaticMask(window_size, std_dev_threshold) ==
    /\ status = "ok"
    /\ ret' = [op |-> "get_static_mask", window_size |-> window_size,
               std_dev_threshold |-> std_dev_threshold, raised |-> "no",
               value |-> get_static_mask(stamps, raw_position, window_size,
                                         std_dev_threshold)]
    /\ UNCHANGED <<args, status, self_vars, hist>>

-----------------------------------------------------------------------------
(* from_ros, from_bag *)

\* A topic is held as the sequence of the names between its slashes, and
\* "a in b" for two of them as: a is a run of consecutive names of b.
Contains(s, sub) ==
    \E k \in 0..(Len(s) - Len(sub)) : SubSeq(s, k + 1, k + Len(sub)) = sub

\* search_str = f"vrpn_client_node/{body_id}/pose"
search_str(body_id) == <<"vrpn_client_node", body_id, "pose">>

\* the topics of the bag that from_bag is left with after its two filters
vrpn_topics(topics, body_id) ==
    LET matching == {t \in topics : Contains(t, search_str(body_id))}
    IN IF Cardinality(matching) > 1
       THEN {t \in matching : Contains(t, <<body_id>> \o search_str(body_id))}
       ELSE matching

\* the topics a bag may hold
Topics == << <<"ifo001", "vrpn_client_node", "ifo001", "pose">>,
             <<"vrpn_client_node", "ifo001", "pose">>,
             <<"relay", "ifo001", "vrpn_client_node", "ifo001", "pose">>,
             <<"ifo002", "vrpn_client_node", "ifo002", "pose">>,
             <<"ifo001", "mavros", "imu", "mag">> >>

\* the PoseStamped messages recorded on a topic: two, at a place of its own
Messages(topic) ==
    LET n == CHOOSE k \in 1..Len(Topics) : Topics[k] = topic
    IN [i \in 1..2 |-> [stamp |-> i - 1,
                        position |-> <<n, i, 0>>,
                        orientation |-> <<2, 0, 0, 0>>]]

\* utils.bag_to_list(bag, topics): the messages of the bag on the topics asked for
bag_to_list(bag, topics) ==
    IF topics = {} THEN <<>> ELSE Messages(CHOOSE t \in topics : TRUE)

\* the constructor's arguments from_ros builds from the messages
from_ros(pose_data, fid) ==
    [stamps |-> [i \in 1..Len(pose_data) |-> pose_data[i].stamp],
     position_data |-> [i \in 1..Len(pose_data) |-> pose_data[i].position],
     quaternion_data |-> [i \in 1..Len(pose_data) |-> pose_data[i].orientation],
     frame_id |-> fid]

\* MocapTrajectory.from_bag(bagfile, body_id, topic)
FromBag ==
    /\ status = "new"
    /\ LET found == vrpn_topics(args.bagfile, args.body_id)
       IN IF Cardinality(found) > 1
          THEN /\ status' = "raised"
               /\ ret' = [op |-> "from_bag",
                          raised |-> "ValueError: Multiple matching topics found"]
               /\ UNCHANGED self_vars
          ELSE MocapTrajectory(from_ros(bag_to_list(args.bagfile, found), args.body_id),
                               "from_bag")
    /\ UNCHANGED <<args, hist>>

-----------------------------------------------------------------------------
(* The life of one trajectory: construction, re-basing, conversion *)

Fresh ==
    /\ status = "new"
    /\ stamps = None
    /\ raw_position = None
    /\ raw_quaternion = None
    /\ frame_id = None
    /\ pos_spline = None
    /\ quat_spline = None
    /\ static_mask = None
    /\ ret = [op |-> "none", raised |-> "no"]
    /\ hist = <<>>

\* Orientation and re-basing
Init ==
    /\ args \in OrientationArgs
    /\ Fresh

RotateBody ==
    /\ status = "ok"
    /\ Len(hist) < MaxRebase
    /\ \E C \in RotPalette :
        \E sgn \in SignChoices([i \in 1..Len(stamps) |->
                      MatMul(rot_matrix(stamps, quat_spline, stamps)[i], Transpose(C))]) :
            RotateBodyFrame(C, sgn)

RotateWorld ==
    /\ status = "ok"
    /\ Len(hist) < MaxRebase
    /\ \E C \in RotPalette :
        \E sgn \in SignChoices([i \in 1..Len(stamps) |->
                      MatMul(Transpose(C), rot_matrix(stamps, quat_spline, stamps)[i])]) :
            RotateWorldFrame(C, sgn)

Next ==
    \/ Construct
    \/ RotateBody
    \/ RotateWorld

Spec == Init /\ [][Next]_vars

\* Conversion to states, before and after re-basing
InitQuery ==
    /\ args \in QueryArgs
    /\ Fresh

\* conversions of a trajectory as built and after one re-basing; a conversion
\* leaves the object as it was, so one conversion per object state reaches
\* every result
NextQuery ==
    \/ Construct
    \/ /\ hist = <<>>
       /\ RotateWorld
    \/ /\ ret.op # "to_pynav"
       /\ \E ts \in SeqsUpTo(Range(stamps), MaxQuery), e \in BOOLEAN : ToPynav(ts, e)

SpecQuery == InitQuery /\ [][NextQuery]_vars

\* The static detector and its lookup
InitStatic ==
    /\ args \in StaticArgs
    /\ Fresh

NextStatic ==
    \/ Construct
    \/ \E w \in 1..MaxWindow, s \in 1..MaxThreshold : GetStaticMask(w, s)
    \/ \E t \in -1..(MaxStamp + 1) : IsStatic(t)

SpecStatic == InitStatic /\ [][NextStatic]_vars

\* Construction from any arguments
InitAny ==
    /\ args \in AnyArgs
    /\ Fresh

NextAny == Construct

SpecAny == InitAny /\ [][NextAny]_vars

\* Loading from a bag
InitBag ==
    /\ args \in [bagfile : SUBSET Range(Topics),
                 body_id : {"ifo001", "ifo002"},
                 topic : {None} \cup Range(Topics)]
    /\ Fresh

NextBag == FromBag

SpecBag == InitBag /\ [][NextBag]_vars

-----------------------------------------------------------------------------
(* Properties *)

\* the rows q, q2 are on the nearer sign branch: |q2 - q| <= |-q2 - q|
NearerBranch(q, q2) == Norm2(Sub(q2, q)) <= Norm2(Sub(Neg(q2), q))

\* C1: whenever an orientation spline has been fitted, at construction or by a
\* re-basing call, every two consecutive rows q_i, q_{i+1} of the sequence it was
\* fitted to satisfy |q_{i+1} - q_i| <= |-q_{i+1} - q_i|.
C1_ConsecutiveRowsOnNearerBranch ==
    quat_spline # None =>
        \A i \in 1..(Len(quat_spline) - 1) :
            NearerBranch(quat_spline[i], quat_spline[i + 1])

\* C1 witness: a re-fit has run on a trajectory at whose construction a row was
\* flipped and the next row, which is on the farther branch of that row as it
\* was given, was kept because it is on the nearer branch of the flipped row.
C1_Witness ==
    /\ status = "ok"
    /\ Len(hist) >= 1
    /\ LET given == normalize_rows(args.quaternion_data)
       IN \E i \in 2..(Len(given) - 1) :
             /\ raw_quaternion[i] = Neg(given[i])
             /\ raw_quaternion[i + 1] = given[i + 1]
             /\ ~NearerBranch(given[i], given[i + 1])

\* the last two calls were op(C) and then op(C.T)
RoundTrip(op) ==
    /\ Len(hist) >= 2
    /\ hist[Len(hist) - 1].op = op
    /\ hist[Len(hist)].op = op
    /\ hist[Len(hist)].C = Transpose(hist[Len(hist) - 1].C)

\* the outputs at the sample times now, and before the last two calls
QuaternionNow == quaternion(stamps, quat_spline, stamps)
PositionNow == position(stamps, pos_spline, stamps)
BeforeRoundTrip == hist[Len(hist) - 1]

\* C3 as claimed: after rotate_body_frame(C), rotate_body_frame(C.T) the
\* quaternions at the sample times are what they were before the two calls, and
\* after rotate_world_frame(C), rotate_world_frame(C.T) so are the quaternions
\* and the positions.
C3_RoundTripRestoresQuaternion ==
    /\ RoundTrip("rotate_body_frame") => QuaternionNow = BeforeRoundTrip.quaternion
    /\ RoundTrip("rotate_world_frame") =>
          /\ QuaternionNow = BeforeRoundTrip.quaternion
          /\ PositionNow = BeforeRoundTrip.position

\* C3 as amended: the round trip restores the rotation matrix at every sample
\* time, that is each quaternion up to its sign, and for the world frame the
\* position too.
C3_RoundTripRestoresRotation ==
    /\ RoundTrip("rotate_body_frame") \/ RoundTrip("rotate_world_frame") =>
          /\ rot_matrix(stamps, quat_spline, stamps) = BeforeRoundTrip.rot_matrix
          /\ \A i \in 1..Len(stamps) :
                \/ QuaternionNow[i] = BeforeRoundTrip.quaternion[i]
                \/ QuaternionNow[i] = Neg(BeforeRoundTrip.quaternion[i])
    /\ RoundTrip("rotate_world_frame") => PositionNow = BeforeRoundTrip.position

\* C3 witness: a world-frame round trip by a third of a turn and back, on a
\* walk, whose positions it moved in between; the rotation matrices are back
\* and a quaternion has come back with the other sign.
C3_Witness ==
    /\ RoundTrip("rotate_world_frame")
    /\ hist[Len(hist)].C # Transpose(hist[Len(hist)].C)
    /\ hist[Len(hist)].position # BeforeRoundTrip.position
    /\ hist[Len(hist)].rot_matrix # BeforeRoundTrip.rot_matrix
    /\ QuaternionNow # BeforeRoundTrip.quaternion

\* C5 as claimed: whenever an orientation spline is fitted, the quaternion at
\* each sample time is the stored raw quaternion of that sample, normalized.
C5_QuaternionIsStoredRaw ==
    status = "ok" => QuaternionNow = normalize_rows(raw_quaternion)

\* a step that is a call of rotate_body_frame
IsRotateBodyFrameStep ==
    /\ Len(hist') = Len(hist) + 1
    /\ hist'[Len(hist')].op = "rotate_body_frame"

\* C9: rotate_body_frame leaves the position spline, and so the positions,
\* velocities and accelerations, the time stamps, the raw positions, the frame
\* id and the static mask as they were, on the same object.
C9_RotateBodyFrameKeepsPosition ==
    [][IsRotateBodyFrameStep =>
          /\ pos_spline' = pos_spline
          /\ position(stamps', pos_spline', stamps') = position(stamps, pos_spline, stamps)
          /\ velocity(stamps', pos_spline', stamps') = velocity(stamps, pos_spline, stamps)
          /\ acceleration(stamps', pos_spline', stamps')
                = acceleration(stamps, pos_spline, stamps)
          /\ stamps' = stamps
          /\ raw_position' = raw_position
          /\ frame_id' = frame_id
          /\ static_mask' = static_mask
          /\ status' = status]_vars

\* C9 witness: rotate_body_frame has just changed the orientation of a walk.
C9_Witness ==
    /\ Len(hist) >= 1
    /\ hist[Len(hist)].op = "rotate_body_frame"
    /\ QuaternionNow # hist[Len(hist)].quaternion
    /\ \E i \in 1..Len(stamps) : PositionNow[i] # PositionNow[1]

Abs(n) == IF n < 0 THEN -n ELSE n

\* C2: is_static(t) does not raise and returns the stored flag of a sample whose
\* time stamp is nearest to t, the first sample's for t before the data and the
\* last sample's for t after it.
C2_IsStaticReturnsNearestFlag ==
    ret.op = "is_static" =>
        /\ ret.raised = "no"
        /\ \E k \in 1..Len(stamps) :
              /\ \A j \in 1..Len(stamps) :
                    Abs(stamps[k] - ret.stamps) <= Abs(stamps[j] - ret.stamps)
              /\ ret.stamps < stamps[1] => k = 1
              /\ ret.stamps > stamps[Len(stamps)] => k = Len(stamps)
              /\ ret.value = static_mask[k]

\* C2 witness: a query after the last time stamp has returned the last flag,
\* which is not the first one, and a query before the first time stamp can
\* return the other.
C2_Witness ==
    /\ ret.op = "is_static"
    /\ ret.stamps > stamps[Len(stamps)]
    /\ ret.value = TRUE
    /\ static_mask[1] = FALSE
    /\ Len(stamps) >= 3

\* h = round(window_size / 2 * N / (t_last - t_first)): the integer nearest to
\* it, the even one of two
ClaimedHalfWidth(window_size) ==
    LET num == window_size * Len(stamps)
        den == 2 * (stamps[Len(stamps)] - stamps[1])
    IN CHOOSE h \in 0..num :
          /\ 2 * Abs(h * den - num) <= den
          /\ 2 * Abs(h * den - num) = den => h % 2 = 0

\* the trace of the covariance of raw_position[lo:hi] (0-based, hi excluded) is
\* below cov_threshold: with n rows, n (n - 1) trace = sum over pairs |x_j - x_k|^2
TraceBelow(lo, hi, cov_threshold) ==
    LET n == hi - lo
        d == [j \in 1..n |-> SumTo([k \in 1..n |->
                 IF j < k THEN Norm2(Sub(raw_position[lo + j], raw_position[lo + k]))
                 ELSE 0], n)]
    IN /\ n >= 2
       /\ SumTo(d, n) < cov_threshold * n * (n - 1)

MaskAsClaimed(mask, window_size, std_dev_threshold) ==
    LET N == Len(stamps)
        h == ClaimedHalfWidth(window_size)
    IN /\ Len(mask) = N
       /\ \A i \in h..(N - h - 1) :
             mask[i + 1] <=> TraceBelow(i - h, i + h, std_dev_threshold * std_dev_threshold)

\* C10: the mask get_static_mask returns has N entries, and for every index i
\* with h <= i < N - h its entry is true exactly when the trace of the
\* covariance of the rows [i - h, i + h) is below the threshold squared; so has
\* the mask computed at construction, with a window of 1 s and the threshold 1.
C10_MaskIsWindowTest ==
    /\ ret.op = "get_static_mask" =>
          MaskAsClaimed(ret.value, ret.window_size, ret.std_dev_threshold)
    /\ status = "ok" =>
          MaskAsClaimed(static_mask, DefaultWindowSize, DefaultStdDevThreshold)

\* C10 witness: a mask returned for a half width of 1 or more, with an
\* evaluated index whose window has a trace equal to the threshold squared and
\* is left false, and an evaluated index that is static.
C10_Witness ==
    /\ ret.op = "get_static_mask"
    /\ LET N == Len(stamps)
           h == ClaimedHalfWidth(ret.window_size)
       IN /\ h >= 1
          /\ \E i, j \in h..(N - h - 1) :
                /\ ret.value[i + 1]
                /\ ~ret.value[j + 1]
                /\ TraceBelow(j - h, j + h, ret.std_dev_threshold * ret.std_dev_threshold + 1)

\* raw_position does not move over the samples a..b
Motionless(a, b) == \A k \in a..b : raw_position[k] = raw_position[a]

\* a motionless run of samples a..b that lasts longer than the window
LongMotionlessSegment(a, b, window_size) ==
    /\ a <= b
    /\ Motionless(a, b)
    /\ stamps[b] - stamps[a] > window_size

LeftEdgeAsClaimed(mask, window_size, std_dev_threshold) ==
    LET N == Len(stamps)
        h == ClaimedHalfWidth(window_size)
    IN \A k \in 1..h :
          k <= N =>
             (mask[k] <=> /\ h < N - h
                          /\ TraceBelow(0, 2 * h, std_dev_threshold * std_dev_threshold))

\* C11: in the mask of get_static_mask the indices [0, h) are all static when
\* the window evaluated at i = h, the rows [0, 2h), is static, and all false
\* otherwise, whatever the windows of the later indices are; so in the mask
\* computed at construction.
C11_LeftEdgeFollowsFirstWindow ==
    /\ ret.op = "get_static_mask" =>
          LeftEdgeAsClaimed(ret.value, ret.window_size, ret.std_dev_threshold)
    /\ status = "ok" =>
          LeftEdgeAsClaimed(static_mask, DefaultWindowSize, DefaultStdDevThreshold)

\* C11 witness: the window at i = h is not static, the window of a later
\* index is, and the first h flags are false.
C11_Witness ==
    /\ ret.op = "get_static_mask"
    /\ LET N == Len(stamps)
           h == ClaimedHalfWidth(ret.window_size)
       IN /\ h >= 1
          /\ h < N - h
          /\ ~TraceBelow(0, 2 * h, ret.std_dev_threshold * ret.std_dev_threshold)
          /\ \E i \in (h + 1)..(N - h - 1) : ret.value[i + 1]
          /\ \A k \in 1..h : ~ret.value[k]

\* when an index is evaluated (h < N - h): the flags from the last evaluated
\* index i = N - h - 1 to the end are all true if the window of i is static, and
\* the last h flags are all false if it is not
RightEdgeAsClaimed(mask, window_size, std_dev_threshold) ==
    LET N == Len(stamps)
        h == ClaimedHalfWidth(window_size)
        i == N - h - 1
    IN h < N - h =>
          IF TraceBelow(i - h, i + h, std_dev_threshold * std_dev_threshold)
          THEN \A k \in i..(N - 1) : mask[k + 1]
          ELSE \A k \in (N - h)..(N - 1) : ~mask[k + 1]

\* C12: in the mask of get_static_mask, for every N and h with an evaluated
\* index, every index from i = N - h - 1 to N - 1 is static when the window of i
\* is static, and the last h indices are false otherwise; so in the mask
\* computed at construction.
C12_RightEdgeFollowsLastWindow ==
    /\ ret.op = "get_static_mask" =>
          RightEdgeAsClaimed(ret.value, ret.window_size, ret.std_dev_threshold)
    /\ status = "ok" =>
          RightEdgeAsClaimed(static_mask, DefaultWindowSize, DefaultStdDevThreshold)

\* the state the conversion owes for the single query time t
OwedState(t, extended_pose) ==
    [type |-> IF extended_pose THEN "SE23State" ELSE "SE3State",
     value |-> IF extended_pose
               THEN extended_pose_matrix(stamps, pos_spline, quat_spline, <<t>>)[1]
               ELSE pose_matrix(stamps, pos_spline, quat_spline, <<t>>)[1],
     stamp |-> t,
     state_id |-> frame_id]

FewerThanTwoDistinct(x) == Cardinality(Range(x)) < 2
NonMonotonic(x) == \E i \in 1..(Len(x) - 1) : x[i] > x[i + 1]
Malformed(a) ==
    \/ FewerThanTwoDistinct(a.stamps)
    \/ Len(a.position_data) # Len(a.stamps)
    \/ Len(a.quaternion_data) # Len(a.stamps)
    \/ NonMonotonic(a.stamps)

\* C7: constructing from fewer than 2 distinct time stamps, from arrays of
\* different lengths or from time stamps that go back raises an error: no
\* object is returned and no static mask is computed.
C7_MalformedArgsRaise ==
    status # "new" /\ Malformed(args) =>
        /\ status = "raised"
        /\ ret.raised # "no"
        /\ static_mask = None
        /\ quat_spline = None

\* C7 witness: the constructor has raised on quaternion rows of another length,
\* after it had fitted the position spline.
C7_Witness ==
    /\ status = "raised"
    /\ ~FewerThanTwoDistinct(args.stamps)
    /\ ~NonMonotonic(args.stamps)
    /\ Len(args.quaternion_data) # Len(args.stamps)
    /\ pos_spline # None

\* the topics of the bag that match the request for the body, as from_bag
\* matches them
Candidates == vrpn_topics(args.bagfile, args.body_id)

\* the positions recorded on a topic are the ones the trajectory holds
Loaded(topic) ==
    /\ status = "ok"
    /\ raw_position = [i \in 1..Len(Messages(topic)) |-> Messages(topic)[i].position]

\* C8 as claimed: from_bag raises the ambiguous-topic error exactly when more
\* than one topic of the bag matches the body and no topic argument was given;
\* with a topic argument that is in the bag, that topic's data are loaded, and
\* with one matching topic, that one's.
C8_AmbiguityOnlyWithoutTopic ==
    ret.op = "from_bag" =>
        /\ ret.raised = "ValueError: Multiple matching topics found"
              <=> (Cardinality(Candidates) > 1 /\ args.topic = None)
        /\ args.topic # None /\ args.topic \in args.bagfile => Loaded(args.topic)
        /\ args.topic = None /\ Cardinality(Candidates) = 1 =>
              \A t \in Candidates : Loaded(t)

====
